---------------------------- MODULE Spec2Model ----------------------------
(***************************************************************************)
(* A model of shipit_static_analysis/clang.py: the ClangTidy parallel      *)
(* runner (__init__, run, run_clang_tidy) and the clang-tidy output parser *)
(* (REGEX_HEADER, parse_issues, ClangIssue).                               *)
(*                                                                         *)
(* Texts are sequences of one-character strings.  Offsets are 0-based, as  *)
(* in Python: the character at offset i of t is t[i+1].                    *)
(***************************************************************************)
EXTENDS Integers, Sequences, FiniteSets, Bags, TLC

\* ------------------------------------------------------------ bounds
\* the largest number of workers a ClangTidy is constructed with
MaxWorkers == 2
\* the number of run calls made on one ClangTidy
MaxRuns == 2
\* the number of lines of a clang-tidy output given to parse_issues
MaxLines == 3
\* the largest worker count passed to __init__
MaxWorkersArg == 34
\* the largest number of CPUs of a machine __init__ runs on
MaxCpuCount == 40

\* ------------------------------------------------------------ characters
Min(S) == CHOOSE x \in S : \A y \in S : x <= y

Max(S) == CHOOSE x \in S : \A y \in S : x >= y

Range(s) == {s[k] : k \in 1..Len(s)}

Digits == {"0","1","2","3","4","5","6","7","8","9"}

Letters ==
    {"a","b","c","d","e","f","g","h","i","j","k","l","m","n","o","p","q","r",
     "s","t","u","v","w","x","y","z",
     "A","B","C","D","E","F","G","H","I","J","K","L","M","N","O","P","Q","R",
     "S","T","U","V","W","X","Y","Z"}

\* \w
WordChars == Letters \cup Digits \cup {"_"}

\* \s
SpaceChars == {" ", "\t", "\n", "\r", "\f"}

\* the characters of the range ,-< of the message class: codes 0x2C to 0x3C
CommaToLess == {",", "-", ".", "/", ":", ";", "<"} \cup Digits

\* [\w\s\.\'\"^_,-<=>\(\)]
MessageChars ==
    WordChars \cup SpaceChars \cup {".", "'", "\"", "^", "_"}
              \cup CommaToLess \cup {"=", ">", "(", ")"}

\* [\.\w-]
CheckChars == {".", "-"} \cup WordChars

WARNING == <<"w","a","r","n","i","n","g">>

ERROR == <<"e","r","r","o","r">>

NOTE == <<"n","o","t","e">>

\* 'clang-diagnostic-error'
DIAGNOSTIC_ERROR ==
    <<"c","l","a","n","g","-","d","i","a","g","n","o","s","t","i","c","-",
      "e","r","r","o","r">>

\* 'Enabled checks:\n'
ENABLED_CHECKS ==
    <<"E","n","a","b","l","e","d"," ","c","h","e","c","k","s",":","\n">>

\* the value of a group that did not take part in the match (None)
None == <<>>

\* the work_dir the ClangTidy was constructed with
WorkDir == <<"/","w">>

\* ------------------------------------------------------------ Python text
\* s[a:b] of Python: offsets clipped to the text, negative ones from its end
PySlice(s, a, b) ==
    LET n  == Len(s)
        lo == IF a < 0 THEN (IF n + a < 0 THEN 0 ELSE n + a)
                       ELSE (IF a > n THEN n ELSE a)
        hi == IF b < 0 THEN (IF n + b < 0 THEN 0 ELSE n + b)
                       ELSE (IF b > n THEN n ELSE b)
    IN  SubSeq(s, lo + 1, hi)

\* the literal lit stands in t at offset i
HasLit(t, i, lit) ==
    /\ i >= 0
    /\ i + Len(lit) <= Len(t)
    /\ \A k \in 1..Len(lit) : t[i + k] = lit[k]

\* the offset of the first character at or after i that is not in Class
RunEnd(t, i, Class) ==
    LET out == {j \in i..(Len(t) - 1) : t[j + 1] \notin Class}
    IN  IF out = {} THEN Len(t) ELSE Min(out)

\* '^' under re.MULTILINE
LineStart(t, i) == i = 0 \/ (i > 0 /\ i <= Len(t) /\ t[i] = "\n")

\* str.startswith
StartsWith(s, prefix) == HasLit(s, 0, prefix)

\* int() of a run of decimal digits
DigitValue(c) == CHOOSE v \in 0..9 : <<"0","1","2","3","4","5","6","7","8","9">>[v + 1] = c

RECURSIVE PyInt(_)
PyInt(s) ==
    IF s = <<>> THEN 0
    ELSE 10 * PyInt(SubSeq(s, 1, Len(s) - 1)) + DigitValue(s[Len(s)])

\* ------------------------------------------------------------ REGEX_HEADER
NoMatch == [matched |-> FALSE]

\* (?: \[([\.\w-]+)\])?\n at offset e: the bracketed check is tried first
MatchTail(t, e) ==
    LET c0 == e + 2
        c1 == RunEnd(t, c0, CheckChars)
    IN  IF HasLit(t, e, <<" ", "[">>) /\ c1 > c0 /\ HasLit(t, c1, <<"]", "\n">>)
        THEN [matched |-> TRUE, check |-> PySlice(t, c0, c1), end |-> c1 + 2]
        ELSE IF HasLit(t, e, <<"\n">>)
        THEN [matched |-> TRUE, check |-> None, end |-> e + 1]
        ELSE NoMatch

\* (warning|error|note) at offset k
MatchKind(t, k) ==
    IF HasLit(t, k, WARNING) THEN WARNING
    ELSE IF HasLit(t, k, ERROR) THEN ERROR
    ELSE IF HasLit(t, k, NOTE) THEN NOTE
    ELSE None

\* ([\w\s\.\'\"^_,-<=>\(\)]+)(?: \[([\.\w-]+)\])?\n at offset m0: the message is
\* greedy, so it ends at the last offset of its run from which the tail matches
MatchMessage(t, m0) ==
    LET m1   == RunEnd(t, m0, MessageChars)
        ends == {e \in (m0 + 1)..m1 : MatchTail(t, e).matched}
    IN  IF ends = {} THEN NoMatch
        ELSE LET e == Max(ends)
             IN  [matched |-> TRUE, message |-> PySlice(t, m0, e),
                  check |-> MatchTail(t, e).check, end |-> MatchTail(t, e).end]

\* :(\d+):(\d+): (warning|error|note): <message> at offset p, after the path
MatchAfterPath(t, p) ==
    LET l0 == p + 1
        l1 == RunEnd(t, l0, Digits)
        c0 == l1 + 1
        c1 == RunEnd(t, c0, Digits)
        k0 == c1 + 2
        kind == MatchKind(t, k0)
        m0 == k0 + Len(kind) + 2
    IN  IF /\ HasLit(t, p, <<":">>) /\ l1 > l0
           /\ HasLit(t, l1, <<":">>) /\ c1 > c0
           /\ HasLit(t, c1, <<":", " ">>)
           /\ kind # None
           /\ HasLit(t, k0 + Len(kind), <<":", " ">>)
           /\ MatchMessage(t, m0).matched
        THEN [matched |-> TRUE,
              line |-> PySlice(t, l0, l1), char |-> PySlice(t, c0, c1),
              type |-> kind, message |-> MatchMessage(t, m0).message,
              check |-> MatchMessage(t, m0).check, end |-> MatchMessage(t, m0).end]
        ELSE NoMatch

\* REGEX_HEADER at offset s: ^(.+) is greedy within the line, so the path ends at
\* the last offset of the line from which the rest of the pattern matches
MatchHeader(t, s) ==
    LET eol   == RunEnd(t, s, {c \in Range(t) : c # "\n"})
        paths == {p \in (s + 1)..eol : MatchAfterPath(t, p).matched}
    IN  IF ~LineStart(t, s) \/ paths = {} THEN NoMatch
        ELSE LET p == Max(paths)
                 m == MatchAfterPath(t, p)
             IN  [matched |-> TRUE, start |-> s, end |-> m.end,
                  path |-> PySlice(t, s, p), line |-> m.line, char |-> m.char,
                  type |-> m.type, message |-> m.message, check |-> m.check]

\* REGEX_HEADER.finditer(t): the leftmost match at or after pos, then on from its end
RECURSIVE FindIter(_, _)
FindIter(t, pos) ==
    LET starts == {s \in pos..(Len(t) - 1) : MatchHeader(t, s).matched}
    IN  IF starts = {} THEN <<>>
        ELSE LET m == MatchHeader(t, Min(starts))
             IN  <<m>> \o FindIter(t, m.end)

\* sorted(..., key=lambda h: h.start()): a stable insertion sort
RECURSIVE SortedByStart(_)
Insert(h, sorted) ==
    LET after == {k \in 1..Len(sorted) : sorted[k].start > h.start}
        at    == IF after = {} THEN Len(sorted) + 1 ELSE Min(after)
    IN  SubSeq(sorted, 1, at - 1) \o <<h>> \o SubSeq(sorted, at, Len(sorted))

SortedByStart(hs) ==
    IF hs = <<>> THEN <<>>
    ELSE Insert(hs[Len(hs)], SortedByStart(SubSeq(hs, 1, Len(hs) - 1)))

\* ------------------------------------------------------------ ClangIssue
\* ClangIssue(header.groups(), work_dir), its body still to be set
ClangIssue(h, work_dir) ==
    [path    |-> IF StartsWith(h.path, work_dir)
                 THEN PySlice(h.path, Len(work_dir), Len(h.path))
                 ELSE h.path,
     line    |-> PyInt(h.line),
     char    |-> PyInt(h.char),
     type    |-> h.type,
     message |-> h.message,
     check   |-> h.check,
     body    |-> None,
     notes   |-> <<>>]

\* is_problem, were it to know the kind warning only
is_problem_WarningOnly(issue) == issue.type \in {WARNING}

is_problem(issue) == issue.type \in {WARNING, ERROR}

\* ------------------------------------------------------------ parse_issues
\* the text parse_issues goes on with, cut at the 'Enabled checks:' line
Truncated(clang_output) ==
    LET ends == {s \in 0..(Len(clang_output) - 1) :
                    LineStart(clang_output, s) /\ HasLit(clang_output, s, ENABLED_CHECKS)}
    IN  IF ends # {}
        THEN PySlice(clang_output, 0, Min(ends) - 1)
        ELSE clang_output

\* the headers of the (cut) text, by position
Headers(text) == SortedByStart(FindIter(text, 0))

\* the issue of headers[i], were the body to run up to the next header
IssueOf_NothingRemoved(text, headers, i) ==
    LET header == headers[i]
        body   == IF i + 1 <= Len(headers)
                  THEN PySlice(text, header.end, headers[i + 1].start)
                  ELSE PySlice(text, header.end, Len(text))
    IN  [ClangIssue(header, WorkDir) EXCEPT !.body = body]

\* the issue of headers[i], with its body
IssueOf(text, headers, i) ==
    LET header == headers[i]
        body   == IF i + 1 <= Len(headers)
                  THEN PySlice(text, header.end, headers[i + 1].start - 1)
                  ELSE PySlice(text, header.end, Len(text))
    IN  [ClangIssue(header, WorkDir) EXCEPT !.body = body]

\* the pass of the loop, were a 'clang-diagnostic-error' not skipped
Classify_KeepDiagnosticError(issues, issue) ==
    IF is_problem(issue)
    THEN Append(issues, issue)
    ELSE IF issues # <<>>
         THEN [issues EXCEPT ![Len(issues)].notes = Append(@, issue)]
         ELSE issues

\* the pass of the loop, were the notes never linked
Classify_DropNotes(issues, issue) ==
    IF is_problem(issue) /\ issue.check # DIAGNOSTIC_ERROR
    THEN Append(issues, issue)
    ELSE issues

\* the pass of the loop, were the notes linked to issues[0]
Classify_NoteToFirst(issues, issue) ==
    IF is_problem(issue)
    THEN IF issue.check = DIAGNOSTIC_ERROR
         THEN issues
         ELSE Append(issues, issue)
    ELSE IF issues # <<>>
         THEN [issues EXCEPT ![1].notes = Append(@, issue)]
         ELSE issues

\* the pass of the loop, were a note with no problem before it kept as an issue
Classify_NoteBecomesIssue(issues, issue) ==
    IF is_problem(issue)
    THEN IF issue.check = DIAGNOSTIC_ERROR
         THEN issues
         ELSE Append(issues, issue)
    ELSE IF issues # <<>>
         THEN [issues EXCEPT ![Len(issues)].notes = Append(@, issue)]
         ELSE Append(issues, issue)

\* one pass of the loop: what issues becomes once issue has been classified
Classify(issues, issue) ==
    IF is_problem(issue)
    THEN IF issue.check = DIAGNOSTIC_ERROR
         THEN issues
         ELSE Append(issues, issue)
    ELSE IF issues # <<>>
         THEN [issues EXCEPT ![Len(issues)].notes = Append(@, issue)]
         ELSE issues

RECURSIVE ParseLoop(_, _, _, _)
ParseLoop(text, headers, i, issues) ==
    IF i > Len(headers) THEN issues
    ELSE ParseLoop(text, headers, i + 1, Classify(issues, IssueOf(text, headers, i)))

\* parse_issues(clang_output)
parse_issues(clang_output) ==
    LET text == Truncated(clang_output)
    IN  ParseLoop(text, Headers(text), 1, <<>>)

\* ------------------------------------------------------------ files and outputs
\* 'a.c'
FILE_A == <<"a",".","c">>

\* 'b.c'
FILE_B == <<"b",".","c">>

\* 'abc'
FILE_C == <<"a","b","c">>

\* 'a.c', as a regular expression
FRAGMENT_A == <<"a",".","c">>

\* 'b'
FRAGMENT_B == <<"b">>

\* 'z'
FRAGMENT_Z == <<"z">>

\* 'a.c:1:1: warning: w [c]\na.c:2:1: note: n\n{\na.c:4:1: note: m\n'
OUTPUT_A ==
    <<"a",".","c",":","1",":","1",":"," ","w","a","r","n","i","n","g",":"," ","w"," ","[","c","]","\n","a",".","c",":","2",":","1",":"," ","n","o","t","e",":"," ","n","\n","{","\n","a",".","c",":","4",":","1",":"," ","n","o","t","e",":"," ","m","\n">>

\* 'b.c:1:1: warning: w [c]\nb.c:2:1: error: e [d]\n'
OUTPUT_B ==
    <<"b",".","c",":","1",":","1",":"," ","w","a","r","n","i","n","g",":"," ","w"," ","[","c","]","\n","b",".","c",":","2",":","1",":"," ","e","r","r","o","r",":"," ","e"," ","[","d","]","\n">>

\* ': warning: w [c]\n' and the like: what follows 'path:line' in a header line
LINE_W == <<":","1",":"," ","w","a","r","n","i","n","g",":"," ","w"," ","[","c","]","\n">>

LINE_V == <<":","1",":"," ","w","a","r","n","i","n","g",":"," ","v","\n">>

LINE_D ==
    <<":","1",":"," ","e","r","r","o","r",":"," ","e"," ","[","c","l","a","n","g","-","d","i","a","g","n","o","s","t","i","c","-","e","r","r","o","r","]","\n">>

LINE_E == <<":","1",":"," ","e","r","r","o","r",":"," ","e"," ","[","d","]","\n">>

LINE_N == <<":","1",":"," ","n","o","t","e",":"," ","n","\n">>

\* 'a.cpp:1:1: warning: msg1\nBODY1\na.cpp:2:1: note: msg2\nBODY2\n'
EXAMPLE_OUTPUT ==
    <<"a",".","c","p","p",":","1",":","1",":"," ","w","a","r","n","i","n","g",":"," ","m","s","g","1","\n","B","O","D","Y","1","\n","a",".","c","p","p",":","2",":","1",":"," ","n","o","t","e",":"," ","m","s","g","2","\n","B","O","D","Y","2","\n">>

\* ------------------------------------------------------------ the program's data
\* self.database_files: the 'file' of every entry of compile_commands.json
database_files == <<FILE_A, FILE_B, FILE_C>>

\* what clang-tidy prints for a file when it exits with status 0
clang_output_of(filename) ==
    IF filename = FILE_A THEN OUTPUT_A
    ELSE IF filename = FILE_B THEN OUTPUT_B
    ELSE <<>>

\* the path fragments a caller passes to run as files
Fragments == {FRAGMENT_A, FRAGMENT_B, FRAGMENT_Z}

\* the check lists a caller passes to run as checks
CheckLists == {<<"c1">>, <<"c2">>}

\* parse_issues of every file's output
parsed_output_of ==
    [filename \in Range(database_files) |-> parse_issues(clang_output_of(filename))]

\* ------------------------------------------------------------ the file filter
\* one fragment, read as a regular expression, matches name at offset i:
\* '.' stands for any character but a newline, every other character for itself
FragmentMatchesAt(fragment, name, i) ==
    /\ i + Len(fragment) <= Len(name)
    /\ \A k \in 1..Len(fragment) :
          IF fragment[k] = "." THEN name[i + k] # "\n" ELSE name[i + k] = fragment[k]

\* re.compile('(' + ')|('.join(files) + ')').search(name): with no fragment the
\* pattern is '()', which matches the empty text at offset 0
file_name_re_search(files, name) ==
    IF files = {} THEN TRUE
    ELSE \E fragment \in files : \E i \in 0..Len(name) :
            FragmentMatchesAt(fragment, name, i)

\* ------------------------------------------------------------ state
VARIABLES
    workers,          \* self.workers
    queue_workers,    \* self.queue_workers: the names put and not yet got
    unfinished_tasks, \* self.queue_workers.unfinished_tasks
    queue_issues,     \* self.queue_issues
    threads,          \* the bag of the threads started: of each, its place in
                      \* run_clang_tidy and its locals (a Thread has no name)
    runPc,            \* the caller's place in run
    runs,             \* the number of run calls made
    checks,           \* run's argument checks
    files,            \* run's argument files
    started,          \* the threads the current call has started
    name_index,       \* the place of 'for name in self.database_files'
    issues,           \* run's local issues, and what it returns
    pushed,           \* history: every issue put on queue_issues since the call began
    analysed,         \* history: of every database entry, how often since the call
                      \* began it was got, clang-tidy was run on it, and
                      \* task_done was called for it
    clang_output,     \* parse_issues' argument, as it was passed
    cut_output,       \* clang_output as parse_issues goes on with it (line 148)
    headers,          \* parse_issues' local headers
    header_index,     \* the place of 'for i, header in enumerate(headers)', from 1
    parsed,           \* parse_issues' local issues
    parsePc,          \* the place in parse_issues
    init_workers,     \* __init__'s argument workers
    cpu_count,        \* what multiprocessing.cpu_count() returns on the machine
    initPc            \* the place in __init__

runVars ==
    <<workers, queue_workers, unfinished_tasks, queue_issues, threads, runPc,
      runs, checks, files, started, name_index, issues, pushed, analysed>>

parseVars == <<clang_output, cut_output, headers, header_index, parsed, parsePc>>

initVars == <<init_workers, cpu_count, initPc>>

vars == <<runVars, parseVars, initVars>>

\* no entry has been got, analysed or marked as done
NoneAnalysed ==
    [name \in Range(database_files) |-> [got |-> 0, invoked |-> 0, done |-> 0]]

\* a thread as t.start() leaves it: about to get a name, args=(checks, )
Started(c) == [pc |-> "get", checks |-> c, filename |-> <<>>, pending |-> <<>>]

\* the threads once the thread th has become the thread new
Become(th, new) == (threads (-) SetToBag({th})) (+) SetToBag({new})

\* ------------------------------------------------------------ ClangTidy.run
\* the ClangTidy as __init__ leaves it, for a worker count w
Constructed(w) ==
    /\ workers = w
    /\ queue_workers = <<>>
    /\ unfinished_tasks = 0
    /\ queue_issues = <<>>
    /\ threads = EmptyBag
    /\ runPc = "idle"
    /\ runs = 0
    /\ checks = <<>>
    /\ files = {}
    /\ started = 0
    /\ name_index = 1
    /\ issues = <<>>
    /\ pushed = <<>>
    /\ analysed = NoneAnalysed

\* no parse_issues call is being followed
ParseIdle ==
    /\ clang_output = <<>>
    /\ cut_output = <<>>
    /\ headers = <<>>
    /\ header_index = 1
    /\ parsed = <<>>
    /\ parsePc = "idle"

\* __init__ has returned: it was passed the worker count w
InitDone(w) ==
    /\ init_workers = w
    /\ cpu_count = 1
    /\ initPc = "constructed"

Init == (\E w \in 1..MaxWorkers : Constructed(w) /\ InitDone(w)) /\ ParseIdle

\* run(checks, files) is called: file_name_re is compiled, issues = []
RunCall ==
    /\ runPc \in {"idle", "returned"}
    /\ runs < MaxRuns
    /\ \E c \in CheckLists, f \in SUBSET Fragments :
          /\ checks' = c
          /\ files' = f
    /\ runs' = runs + 1
    /\ started' = 0
    /\ name_index' = 1
    /\ issues' = <<>>
    /\ pushed' = <<>>
    /\ analysed' = NoneAnalysed
    /\ runPc' = "spawn"
    /\ UNCHANGED <<workers, queue_workers, unfinished_tasks, queue_issues, threads>>

\* for _ in range(self.workers): one Thread(target=self.run_clang_tidy,
\* args=(checks, )) is started, or the loop is over
Spawn ==
    /\ runPc = "spawn"
    /\ IF started < workers
       THEN /\ threads' = threads (+) SetToBag({Started(checks)})
            /\ started' = started + 1
            /\ UNCHANGED runPc
       ELSE /\ runPc' = "fill"
            /\ UNCHANGED <<threads, started>>
    /\ UNCHANGED <<workers, queue_workers, unfinished_tasks, queue_issues, runs,
                   checks, files, name_index, issues, pushed, analysed>>

\* for name in self.database_files: a matching name is put (put waits while the
\* queue holds self.workers names), another is passed over
Fill ==
    /\ runPc = "fill"
    /\ IF name_index > Len(database_files)
       THEN /\ runPc' = "join"
            /\ UNCHANGED <<queue_workers, unfinished_tasks, name_index>>
       ELSE /\ IF file_name_re_search(files, database_files[name_index])
               THEN /\ Len(queue_workers) < workers
                    /\ queue_workers' = Append(queue_workers, database_files[name_index])
                    /\ unfinished_tasks' = unfinished_tasks + 1
               ELSE UNCHANGED <<queue_workers, unfinished_tasks>>
            /\ name_index' = name_index + 1
            /\ UNCHANGED runPc
    /\ UNCHANGED <<workers, queue_issues, threads, runs, checks, files, started,
                   issues, pushed, analysed>>

\* join, were it to wait for the queue to be empty only
JoinReady_QueueEmpty == queue_workers = <<>>

\* what self.queue_workers.join() waits for
JoinReady == unfinished_tasks = 0

\* self.queue_workers.join() returns
Join ==
    /\ runPc = "join"
    /\ JoinReady
    /\ runPc' = "collect"
    /\ UNCHANGED <<workers, queue_workers, unfinished_tasks, queue_issues, threads,
                   runs, checks, files, started, name_index, issues, pushed, analysed>>

\* while not self.queue_issues.empty(): one issue is moved to issues, or the loop
\* is over and run returns issues
Collect ==
    /\ runPc = "collect"
    /\ IF queue_issues # <<>>
       THEN /\ issues' = Append(issues, Head(queue_issues))
            /\ queue_issues' = Tail(queue_issues)
            /\ UNCHANGED runPc
       ELSE /\ runPc' = "returned"
            /\ UNCHANGED <<issues, queue_issues>>
    /\ UNCHANGED <<workers, queue_workers, unfinished_tasks, threads, runs, checks,
                   files, started, name_index, pushed, analysed>>

\* the interrupt, were os.kill to end the caller's thread only
Interrupt_ThreadsSurvive ==
    /\ runPc \in {"spawn", "fill", "join", "collect"}
    /\ runPc' = "killed"
    /\ issues' = <<>>
    /\ pushed' = <<>>
    /\ analysed' = NoneAnalysed
    /\ started' = 0
    /\ name_index' = 1
    /\ UNCHANGED <<workers, queue_workers, unfinished_tasks, queue_issues, threads,
                   runs, checks, files>>

\* except KeyboardInterrupt: os.kill(0, 9) ends the process, its threads with
\* it: run's locals are gone and nothing is returned, the queues stay as the
\* threads left them
Interrupt ==
    /\ runPc \in {"spawn", "fill", "join", "collect"}
    /\ runPc' = "killed"
    /\ threads' = EmptyBag
    /\ issues' = <<>>
    /\ pushed' = <<>>
    /\ analysed' = NoneAnalysed
    /\ started' = 0
    /\ name_index' = 1
    /\ UNCHANGED <<workers, queue_workers, unfinished_tasks, queue_issues, runs,
                   checks, files>>

\* ------------------------------------------------------------ run_clang_tidy
\* the get, were it to read the head of the queue and leave it there
WorkerGet_HeadLeft(t) ==
    /\ t.pc = "get"
    /\ queue_workers # <<>>
    /\ threads' = Become(t, [t EXCEPT !.pc = "tool", !.filename = Head(queue_workers)])
    /\ analysed' = [analysed EXCEPT ![Head(queue_workers)].got = @ + 1]
    /\ UNCHANGED <<workers, queue_workers, unfinished_tasks, queue_issues, runPc,
                   runs, checks, files, started, name_index, issues, pushed>>

\* filename = self.queue_workers.get()
WorkerGet(t) ==
    /\ t.pc = "get"
    /\ queue_workers # <<>>
    /\ threads' = Become(t, [t EXCEPT !.pc = "tool", !.filename = Head(queue_workers)])
    /\ queue_workers' = Tail(queue_workers)
    /\ analysed' = [analysed EXCEPT ![Head(queue_workers)].got = @ + 1]
    /\ UNCHANGED <<workers, unfinished_tasks, queue_issues, runPc, runs, checks,
                   files, started, name_index, issues, pushed>>

\* the issues put, were the thread to put the issues of an output last to first
IssuesToPush_Reversed(filename) ==
    [k \in 1..Len(parsed_output_of[filename]) |->
        parsed_output_of[filename][Len(parsed_output_of[filename]) + 1 - k]]

\* the issues put, were the thread to put the first issue of an output only
IssuesToPush_FirstOnly(filename) ==
    IF parsed_output_of[filename] = <<>> THEN <<>>
    ELSE <<Head(parsed_output_of[filename])>>

\* the issues the thread goes on to put, once check_output has returned
IssuesToPush(filename) == parsed_output_of[filename]

\* subprocess.check_output(cmd) returns the output, which is parsed
WorkerToolDone(t) ==
    /\ t.pc = "tool"
    /\ threads' = Become(t, [t EXCEPT !.pc = "push",
                                      !.pending = IssuesToPush(t.filename)])
    /\ analysed' = [analysed EXCEPT ![t.filename].invoked = @ + 1]
    /\ UNCHANGED <<workers, queue_workers, unfinished_tasks, queue_issues, runPc,
                   runs, checks, files, started, name_index, issues, pushed>>

\* clang-tidy exits with a status other than 0: check_output raises
\* CalledProcessError, which nothing in run_clang_tidy catches, and the thread ends
WorkerToolFailed(t) ==
    /\ t.pc = "tool"
    /\ threads' = Become(t, [t EXCEPT !.pc = "dead"])
    /\ analysed' = [analysed EXCEPT ![t.filename].invoked = @ + 1]
    /\ UNCHANGED <<workers, queue_workers, unfinished_tasks, queue_issues, runPc,
                   runs, checks, files, started, name_index, issues, pushed>>

\* for issue in ...: self.queue_issues.put(issue)
WorkerPut(t) ==
    /\ t.pc = "push"
    /\ t.pending # <<>>
    /\ queue_issues' = Append(queue_issues, Head(t.pending))
    /\ pushed' = Append(pushed, Head(t.pending))
    /\ threads' = Become(t, [t EXCEPT !.pending = Tail(@)])
    /\ UNCHANGED <<workers, queue_workers, unfinished_tasks, runPc, runs, checks,
                   files, started, name_index, issues, analysed>>

\* the end of a pass of the thread's loop, were task_done not called
WorkerTaskDone_NoSignal(t) ==
    /\ t.pc = "push"
    /\ t.pending = <<>>
    /\ threads' = Become(t, [t EXCEPT !.pc = "get", !.filename = <<>>])
    /\ UNCHANGED <<workers, queue_workers, unfinished_tasks, queue_issues, runPc,
                   runs, checks, files, started, name_index, issues, pushed, analysed>>

\* self.queue_workers.task_done(), and back to the get
WorkerTaskDone(t) ==
    /\ t.pc = "push"
    /\ t.pending = <<>>
    /\ unfinished_tasks' = unfinished_tasks - 1
    /\ threads' = Become(t, [t EXCEPT !.pc = "get", !.filename = <<>>])
    /\ analysed' = [analysed EXCEPT ![t.filename].done = @ + 1]
    /\ UNCHANGED <<workers, queue_workers, queue_issues, runPc, runs, checks,
                   files, started, name_index, issues, pushed>>

Worker(t) ==
    \/ WorkerGet(t)
    \/ WorkerToolFailed(t)
    \/ WorkerToolDone(t)
    \/ WorkerPut(t)
    \/ WorkerTaskDone(t)

\* the steps of the caller's thread inside run
RunStep == Spawn \/ Fill \/ Join \/ Collect

CallerStep == RunStep /\ UNCHANGED <<parseVars, initVars>>

WorkerStep == \E t \in BagToSet(threads) : Worker(t) /\ UNCHANGED <<parseVars, initVars>>

Next ==
    \/ (RunCall /\ UNCHANGED <<parseVars, initVars>>)
    \/ (Spawn /\ UNCHANGED <<parseVars, initVars>>)
    \/ (Fill /\ UNCHANGED <<parseVars, initVars>>)
    \/ (Join /\ UNCHANGED <<parseVars, initVars>>)
    \/ (Collect /\ UNCHANGED <<parseVars, initVars>>)
    \/ (Interrupt /\ UNCHANGED <<parseVars, initVars>>)
    \/ (\E t \in BagToSet(threads) : WorkerGet(t) /\ UNCHANGED <<parseVars, initVars>>)
    \/ (\E t \in BagToSet(threads) : WorkerToolFailed(t) /\ UNCHANGED <<parseVars, initVars>>)
    \/ (\E t \in BagToSet(threads) : WorkerToolDone(t) /\ UNCHANGED <<parseVars, initVars>>)
    \/ (\E t \in BagToSet(threads) : WorkerPut(t) /\ UNCHANGED <<parseVars, initVars>>)
    \/ (\E t \in BagToSet(threads) : WorkerTaskDone(t) /\ UNCHANGED <<parseVars, initVars>>)

Spec == Init /\ [][Next]_vars

\* the caller's thread and the worker threads are scheduled: a step of run that
\* stays possible is taken, and so is a step of some worker.  A new run call and
\* an interrupt are the environment's, and may never come.
FairSpec == Init /\ [][Next]_vars /\ WF_vars(CallerStep) /\ WF_vars(WorkerStep)

\* ------------------------------------------------------------ parse_issues, step by step
\* the lines a clang-tidy output is made of here, n being the line's number in
\* the output (so that every header names its own line):
\*   W  a:n:1: warning: w [c]          V  /w/a:n:1: warning: v
\*   D  a:n:1: error: e [clang-diagnostic-error]
\*   E  a:n:1: error: e [d]
\*   N  a:n:1: note: n                 B  x;        C  {
\*   M  Enabled checks:
LineKinds == {"W", "V", "D", "E", "N", "B", "C", "M"}

LineOf(kind, n) ==
    CASE kind = "W" -> <<"a", ":", n>> \o LINE_W
      [] kind = "V" -> <<"/", "w", "/", "a", ":", n>> \o LINE_V
      [] kind = "D" -> <<"a", ":", n>> \o LINE_D
      [] kind = "E" -> <<"a", ":", n>> \o LINE_E
      [] kind = "N" -> <<"a", ":", n>> \o LINE_N
      [] kind = "B" -> <<"x", ";", "\n">>
      [] kind = "C" -> <<"{", "\n">>
      [] kind = "M" -> ENABLED_CHECKS

DigitOf(k) == <<"1","2","3","4","5","6","7","8","9">>[k]

RECURSIVE TextOf(_)
TextOf(kinds) ==
    IF kinds = <<>> THEN <<>>
    ELSE TextOf(SubSeq(kinds, 1, Len(kinds) - 1))
            \o LineOf(kinds[Len(kinds)], DigitOf(Len(kinds)))

\* the outputs parse_issues is followed on: up to MaxLines lines, the last one
\* with or without its newline, and the output of the spec's example
ParseInputs ==
    LET texts == {TextOf(kinds) : kinds \in UNION {[1..n -> LineKinds] : n \in 0..MaxLines}}
    IN  texts \cup {PySlice(text, 0, Len(text) - 1) : text \in texts \ {<<>>}}
              \cup {EXAMPLE_OUTPUT}

ParseInit ==
    /\ Constructed(1)
    /\ InitDone(1)
    /\ clang_output \in ParseInputs
    /\ cut_output = <<>>
    /\ headers = <<>>
    /\ header_index = 1
    /\ parsed = <<>>
    /\ parsePc = "called"

\* lines 145 to 156: the text is cut, the headers are found, issues = []
ParseBegin ==
    /\ parsePc = "called"
    /\ cut_output' = Truncated(clang_output)
    /\ headers' = Headers(Truncated(clang_output))
    /\ parsed' = <<>>
    /\ header_index' = 1
    /\ parsePc' = "loop"
    /\ UNCHANGED clang_output

\* lines 157 to 178: one pass of the loop
ParseStep ==
    /\ parsePc = "loop"
    /\ header_index <= Len(headers)
    /\ parsed' = Classify(parsed, IssueOf(cut_output, headers, header_index))
    /\ header_index' = header_index + 1
    /\ UNCHANGED <<clang_output, cut_output, headers, parsePc>>

\* line 180: return issues
ParseReturn ==
    /\ parsePc = "loop"
    /\ header_index > Len(headers)
    /\ parsePc' = "returned"
    /\ UNCHANGED <<clang_output, cut_output, headers, header_index, parsed>>

ParseNext ==
    \/ (ParseBegin /\ UNCHANGED <<runVars, initVars>>)
    \/ (ParseStep /\ UNCHANGED <<runVars, initVars>>)
    \/ (ParseReturn /\ UNCHANGED <<runVars, initVars>>)

ParseSpec == ParseInit /\ [][ParseNext]_vars

\* ------------------------------------------------------------ ClangTidy.__init__
\* the worker counts __init__ is passed: 0 asks for the machine's count
WorkerArgs == (0 - 1)..MaxWorkersArg

\* the numbers of CPUs of the machines __init__ runs on
CpuCounts == 1..MaxCpuCount

\* __init__ has been called and has not reached line 58 yet: nothing of the
\* worker queue is set
ConstructInit ==
    /\ init_workers \in WorkerArgs
    /\ cpu_count \in CpuCounts
    /\ initPc = "called"
    /\ workers = 0
    /\ queue_workers = <<>>
    /\ unfinished_tasks = 0
    /\ queue_issues = <<>>
    /\ threads = EmptyBag
    /\ runPc = "none"
    /\ runs = 0
    /\ checks = <<>>
    /\ files = {}
    /\ started = 0
    /\ name_index = 1
    /\ issues = <<>>
    /\ pushed = <<>>
    /\ analysed = NoneAnalysed
    /\ ParseIdle

\* lines 58 to 67 with workers == 0: the count is multiprocessing.cpu_count()
InitDefaulted ==
    /\ initPc = "called"
    /\ init_workers = 0
    /\ workers' = cpu_count
    /\ initPc' = "constructed"
    /\ runPc' = "idle"
    /\ UNCHANGED <<queue_workers, unfinished_tasks, queue_issues, threads, runs,
                   checks, files, started, name_index, issues, pushed, analysed,
                   init_workers, cpu_count>>

\* lines 58 to 67 with a count that passes 'assert 0 < workers <= 32'
InitAccepted ==
    /\ initPc = "called"
    /\ init_workers # 0
    /\ 0 < init_workers /\ init_workers <= 32
    /\ workers' = init_workers
    /\ initPc' = "constructed"
    /\ runPc' = "idle"
    /\ UNCHANGED <<queue_workers, unfinished_tasks, queue_issues, threads, runs,
                   checks, files, started, name_index, issues, pushed, analysed,
                   init_workers, cpu_count>>

\* line 61 with another count: the assert raises AssertionError
InitRejected ==
    /\ initPc = "called"
    /\ init_workers # 0
    /\ ~(0 < init_workers /\ init_workers <= 32)
    /\ initPc' = "raised"
    /\ UNCHANGED <<runVars, init_workers, cpu_count>>

ConstructNext ==
    \/ (InitDefaulted /\ UNCHANGED parseVars)
    \/ (InitAccepted /\ UNCHANGED parseVars)
    \/ (InitRejected /\ UNCHANGED parseVars)

ConstructSpec == ConstructInit /\ [][ConstructNext]_vars

\* ------------------------------------------------------------ claims: run
\* some clang-tidy invocation of this process exited with a non-zero status
ToolFailed == \E t \in BagToSet(threads) : t.pc = "dead"

\* the thread t holds a name it got, or issues it has not put yet
InFlight(t) == t.pc \in {"tool", "push"}

SeqToBag(s) == [x \in Range(s) |-> Cardinality({k \in 1..Len(s) : s[k] = x})]

\* the database entries file_name_re matches
Filtered == {name \in Range(database_files) : file_name_re_search(files, name)}

\* the fragment stands somewhere in name, character for character
Contains(name, fragment) == \E i \in 0..Len(name) : HasLit(name, i, fragment)

\* C1: once the tool has exited with a non-zero status in some worker, the run
\* call fails: the failure reaches the caller of run (or the process is gone),
\* and run never returns a collection
C1_ToolFailureFailsRun ==
    /\ ToolFailed ~> (runPc \in {"raised", "killed"})
    /\ [](ToolFailed => runPc # "returned")

\* C2: when run returns, what it returns is, as a set, the union over the
\* filtered files of parse_issues of that file's output, whatever the worker
\* count and the interleaving
C2_ReturnsUnionOfParsedOutputs ==
    runPc = "returned" =>
        Range(issues) =
            UNION {Range(parse_issues(clang_output_of(name))) : name \in Filtered}

\* run has returned, with two workers, the issues of b.c before those of a.c
C2_Witness ==
    /\ runPc = "returned"
    /\ workers = 2
    /\ Len(issues) = 3
    /\ issues[1].path = FILE_B
    /\ issues[3].path = FILE_A

\* C3: when run returns, the filename queue is empty, no worker has an
\* invocation in flight or issues still to put, and every issue put during the
\* call is in the returned collection exactly once
C3_ReturnsOnceDrained ==
    runPc = "returned" =>
        /\ queue_workers = <<>>
        /\ \A t \in BagToSet(threads) : ~InFlight(t)
        /\ SeqToBag(issues) = SeqToBag(pushed)

\* run has returned what two workers put, three issues of two files
C3_Witness ==
    /\ runPc = "returned"
    /\ workers = 2
    /\ Len(pushed) = 3
    /\ \E k \in 1..3 : pushed[k].path = FILE_A

\* C4: a name on the work queue, or in a worker's hands, contains one of the
\* fragments passed to run
C4_OnlyMatchingDispatched ==
    \A name \in Range(queue_workers)
                \cup {t.filename : t \in {u \in BagToSet(threads) : InFlight(u)}} :
        \E fragment \in files : Contains(name, fragment)

\* ------------------------------------------------------------ claims: parse_issues
\* The headers of an output are the matches of REGEX_HEADER in it, the local
\* headers of parse_issues.  Every header of the outputs followed here names its
\* own line, so a record of the result is known by its line.
IsProblemHeader(k) == headers[k].type \in {WARNING, ERROR}

IsNoteHeader(k) == headers[k].type = NOTE

IsDropped(k) == IsProblemHeader(k) /\ headers[k].check = DIAGNOSTIC_ERROR

IsKept(k) == IsProblemHeader(k) /\ headers[k].check # DIAGNOSTIC_ERROR

LineNo(k) == PyInt(headers[k].line)

ProblemsBefore(i) == {j \in 1..(i - 1) : IsProblemHeader(j)}

KeptBefore(i) == {k \in 1..(i - 1) : IsKept(k)}

\* the note header i comes after a dropped problem header, no other problem
\* header between them
FollowsDropped(i) ==
    /\ IsNoteHeader(i)
    /\ ProblemsBefore(i) # {}
    /\ IsDropped(Max(ProblemsBefore(i)))

InTopLevel(k) == \E d \in Range(parsed) : d.line = LineNo(k)

AttachedAnywhere(i) ==
    \E d \in Range(parsed) : \E n \in Range(d.notes) : n.line = LineNo(i)

\* the record of header i is a note of the Diagnostic of header k, and of no other
AttachedOnlyTo(i, k) ==
    \A d \in Range(parsed) :
        (\E n \in Range(d.notes) : n.line = LineNo(i)) <=> (d.line = LineNo(k))

C6_NoteAfterDroppedGoesToLastKept ==
    parsePc = "returned" =>
        \A i \in 1..Len(headers) :
            FollowsDropped(i) =>
                LET j == Max(ProblemsBefore(i))
                IN  /\ ~InTopLevel(j)
                    /\ IF KeptBefore(j) # {}
                       THEN InTopLevel(Max(KeptBefore(j)))
                            /\ AttachedOnlyTo(i, Max(KeptBefore(j)))
                       ELSE ~AttachedAnywhere(i)

\* parse_issues has returned from an output where a note follows a dropped
\* header that itself follows a kept one
C6_Witness ==
    /\ parsePc = "returned"
    /\ \E i \in 1..Len(headers) :
          FollowsDropped(i) /\ KeptBefore(Max(ProblemsBefore(i))) # {}

\* C7, as claimed: a note is attached only if the most recent problem header
\* before it was kept, so a note that follows a dropped record is attached nowhere
C7_NoteAfterDroppedIsDropped ==
    parsePc = "returned" =>
        \A i \in 1..Len(headers) :
            (IsNoteHeader(i) /\ AttachedAnywhere(i)) =>
                (ProblemsBefore(i) # {} /\ IsKept(Max(ProblemsBefore(i))))

\* C7, amended: a note is attached if and only if some Diagnostic was kept
\* before it, and then to the last one kept, whether or not the most recent
\* problem header before it was dropped
C7_NoteGoesToLastKept ==
    parsePc = "returned" =>
        \A i \in 1..Len(headers) :
            IsNoteHeader(i) =>
                IF KeptBefore(i) # {}
                THEN AttachedOnlyTo(i, Max(KeptBefore(i)))
                ELSE ~AttachedAnywhere(i)

\* parse_issues has returned one Diagnostic, holding as its one note a note
\* whose most recent problem header was dropped
C7_Witness ==
    /\ parsePc = "returned"
    /\ Len(parsed) = 1
    /\ Len(parsed[1].notes) = 1
    /\ \E i \in 1..Len(headers) :
          FollowsDropped(i) /\ AttachedAnywhere(i)

\* C8: no element of the list of parse_issues is of kind note, every note of a
\* Diagnostic is, and no note has notes
C8_ShapeOfResult ==
    \A d \in Range(parsed) :
        /\ d.type # NOTE
        /\ \A n \in Range(d.notes) : n.type = NOTE /\ n.notes = <<>>

\* parse_issues holds a Diagnostic of kind error with a note, after a header of
\* each kind
C8_Witness ==
    /\ \E d \in Range(parsed) : d.type = ERROR /\ Len(d.notes) = 1
    /\ \E k \in 1..Len(headers) : headers[k].type = WARNING

\* C9: a note header with no kept Diagnostic before it is dropped: once the
\* loop has passed it, and when parse_issues returns, the note is neither in the
\* list nor a note of any Diagnostic
C9_NoteBeforeAnyDiagnosticIsDropped ==
    \A i \in 1..Len(headers) :
        (IsNoteHeader(i) /\ KeptBefore(i) = {} /\ header_index > i) =>
            ~InTopLevel(i) /\ ~AttachedAnywhere(i)

\* parse_issues has returned a Diagnostic from an output that begins with a note
C9_Witness ==
    /\ parsePc = "returned"
    /\ Len(headers) >= 2
    /\ IsNoteHeader(1)
    /\ Len(parsed) = 1

\* C10: on the example output, parse_issues returns one Diagnostic, of body
\* 'BODY1', with one note, of body 'BODY2'
C10_ExampleBodies ==
    (parsePc = "returned" /\ clang_output = EXAMPLE_OUTPUT) =>
        /\ Len(parsed) = 1
        /\ parsed[1].body = <<"B","O","D","Y","1">>
        /\ Len(parsed[1].notes) = 1
        /\ parsed[1].notes[1].body = <<"B","O","D","Y","2">>

\* ------------------------------------------------------------ claims: the marker
\* the offsets of the text at which a line 'Enabled checks:' begins
MarkerStarts(text) ==
    {s \in 0..(Len(text) - 1) : LineStart(text, s) /\ HasLit(text, s, ENABLED_CHECKS)}

HasMarker(text) == MarkerStarts(text) # {}

\* the offset of the first marker line of the text
MarkerStart(text) == Min(MarkerStarts(text))

\* the number of lines of the text that end before the offset
LinesBefore(text, offset) == Cardinality({k \in 1..offset : text[k] = "\n"})

\* the text up to the marker line, the newline before the marker included
BeforeMarker(text) == PySlice(text, 0, MarkerStart(text))

\* the records of the result, the notes among them
Records == Range(parsed) \cup UNION {Range(d.notes) : d \in Range(parsed)}

\* C11: when the output holds a marker line, no record parse_issues returns
\* comes from a header that stands after the marker line, wherever the marker
\* stands, the first line included
C11_NothingParsedAfterMarker ==
    (parsePc = "returned" /\ HasMarker(clang_output)) =>
        \A r \in Records :
            r.line <= LinesBefore(clang_output, MarkerStart(clang_output))

\* C12: when the output holds a marker line, parse_issues returns what it
\* returns on the text that ends just before the marker: every header line
\* before the marker, the one just before it included, is still matched
C12_SameAsTextBeforeMarker ==
    (parsePc = "returned" /\ HasMarker(clang_output)) =>
        parsed = parse_issues(BeforeMarker(clang_output))

\* ------------------------------------------------------------ claims: order
\* Every header of OUTPUT_A and of OUTPUT_B names its own line and its file, so
\* the textual order of two records of one output is the order of their lines.
\* C13: in what run returns, two Diagnostics of the same file's output stand in
\* the textual order of their headers, and so do the notes of each Diagnostic,
\* whatever the worker count and the interleaving
C13_TextualOrderWithinFile ==
    runPc = "returned" =>
        /\ \A i, j \in 1..Len(issues) :
              (i < j /\ issues[i].path = issues[j].path) =>
                  issues[i].line < issues[j].line
        /\ \A d \in Range(issues) : \A i, j \in 1..Len(d.notes) :
              i < j => d.notes[i].line < d.notes[j].line

\* run has returned, with two workers, the two Diagnostics of b.c with the
\* Diagnostic of a.c, which holds two notes, between them
C13_Witness ==
    /\ runPc = "returned"
    /\ workers = 2
    /\ Len(issues) = 3
    /\ issues[1].path = FILE_B
    /\ issues[2].path = FILE_A
    /\ issues[3].path = FILE_B
    /\ Len(issues[2].notes) = 2

C15_WorkerCountInRange ==
    /\ initPc = "constructed" => (1 <= workers /\ workers <= 32)
    /\ initPc = "raised" => (threads = EmptyBag /\ queue_workers = <<>>)

\* ------------------------------------------------------------ claims: termination
\* the caller is inside run
Running == runPc \in {"spawn", "fill", "join", "collect"}

\* C16: while no invocation of the tool fails (and no interrupt comes), a run
\* call that has begun returns, for every worker count, with no matching file
\* as with more matching files than the work queue holds
C16_RunReturns == Running ~> (runPc = "returned" \/ ToolFailed \/ runPc = "killed")

\* run has returned, with one worker, after three names went through a work
\* queue that holds one, no invocation having failed
C16_Witness ==
    /\ runPc = "returned"
    /\ workers = 1
    /\ Cardinality(Filtered) = 3
    /\ ~ToolFailed

\* ------------------------------------------------------------ claims: exactly once
\* C17: no database entry is got by a worker, given to clang-tidy or marked as
\* done more than once in a run call, and when a run call whose invocations all
\* succeeded returns, each of the three has happened exactly once for every
\* entry the filter matches and never for another, whatever the interleaving
C17_AnalysedExactlyOnce ==
    /\ \A name \in Range(database_files) :
          analysed[name].got <= 1 /\ analysed[name].invoked <= 1
                                  /\ analysed[name].done <= 1
    /\ (runPc = "returned" /\ ~ToolFailed) =>
          \A name \in Range(database_files) :
              analysed[name] =
                  IF name \in Filtered
                  THEN [got |-> 1, invoked |-> 1, done |-> 1]
                  ELSE [got |-> 0, invoked |-> 0, done |-> 0]

\* the second run call on a ClangTidy of two workers has returned, two of the
\* three entries having matched: four threads were waiting on the queue
C17_Witness ==
    /\ runPc = "returned"
    /\ workers = 2
    /\ runs = 2
    /\ Cardinality(Filtered) = 2
    /\ \A name \in Filtered : analysed[name].done = 1

\* ------------------------------------------------------------ claims: the pool
\* the thread has not ended
Live(t) == t.pc # "dead"

\* the thread is inside subprocess.check_output
Invoking(t) == t.pc = "tool"

\* the number of threads of the bag that satisfy the predicate on threads
CountThreads(P(_)) ==
    BagCardinality([t \in {u \in BagToSet(threads) : P(u)} |-> threads[t]])

\* C18: a thread that holds a name got during a run call runs clang-tidy with
\* the checks passed to that run call
C18_ChecksOfTheCall ==
    \A t \in BagToSet(threads) : InFlight(t) => t.checks = checks

\* C19: at every moment the live threads are at most self.workers, and so are
\* the clang-tidy invocations in flight
C19_PoolIsFixed ==
    /\ CountThreads(Live) <= workers
    /\ CountThreads(Invoking) <= workers

\* ------------------------------------------------------------ claims: bodies
\* the text between the end of header k and the start of the header after it
SpanAfter(k) == PySlice(cut_output, headers[k].end, headers[k + 1].start)

\* the text with its last character removed (s[:-1])
DropLast(s) == PySlice(s, 0, Len(s) - 1)

\* the body the record of header k is to have
BodyOf(k) ==
    IF k < Len(headers)
    THEN DropLast(SpanAfter(k))
    ELSE PySlice(cut_output, headers[k].end, Len(cut_output))

=============================================================================
